---- MODULE Spec2Model ----
(***************************************************************************)
(* Recipe Hub backend: token service (core/security.py), auth router       *)
(* (api/routers_auth.py) and recipes router (api/routers_recipes.py) over  *)
(* the relational store declared in db/models.py.                          *)
(*                                                                         *)
(* Conventions.  A Python str is a sequence of one-character strings       *)
(* (<<"e","g">> is "eg", <<>> is ""); e-mail addresses, passwords and the  *)
(* signing secret are only ever compared for equality and are atomic       *)
(* strings.  Optional[int] is a sequence of length at most one (<<>> is    *)
(* None).  Time is whole seconds since the epoch, as int(now.timestamp()). *)
(***************************************************************************)
EXTENDS Integers, Sequences, FiniteSets, TLC

VARIABLES
    settings,   \* the cached Settings object (core/config.py get_settings)
    now,        \* the server clock, whole seconds
    users,      \* table "users": set of rows
    recipes,    \* table "recipes": set of rows
    nextRecipeId, \* the primary-key sequence of table "recipes"
    inflight,   \* register requests between their SELECT and their INSERT
    tokens,     \* direct create_access_token calls made so far (token-service runs)
    last        \* the last response (or function result) produced

vars == <<settings, now, users, recipes, nextRecipeId, inflight, tokens, last>>

---------------------------------------------------------------------------
(* Bounds of the model *)

\* clock readings sampled on each side of an interesting instant
MaxSkew == 1
\* direct create_access_token calls remembered
MaxTokens == 1
\* register requests that may be in flight at once
MaxInflight == 2
\* rows ever inserted into table "recipes"
MaxRecipes == 2
\* largest skip / limit tried by list_recipes requests
MaxPage == 2

---------------------------------------------------------------------------
(* Python values *)

\* Python's None for an Optional[str]; no str equals it (a str's elements are
\* single characters)
None == <<"None">>

NoneInt == <<>>

\* `a or b` on an Optional[int]: None and 0 are falsy
IntOr(a, b) == IF a # NoneInt /\ a[1] # 0 THEN a[1] ELSE b

---------------------------------------------------------------------------
(* core/config.py *)

SECONDS_PER_MINUTE == 60

DEFAULT_EXPIRE_MINUTES == 60

JWT_SECRET == "server-secret"

\* env is the value of the environment variable ACCESS_TOKEN_EXPIRE_MINUTES
\* (<<>> when unset)
get_settings(env) ==
    [JWT_SECRET |-> JWT_SECRET,
     ACCESS_TOKEN_EXPIRE_MINUTES |->
        IF env = NoneInt THEN DEFAULT_EXPIRE_MINUTES ELSE env[1]]

\* the environments tried
EnvValues == {NoneInt, <<1>>}

---------------------------------------------------------------------------
(* jose.jwt, HS256 *)

\* HMAC-SHA256 of msg under key, as an ideal MAC: equal exactly when key and
\* message are equal.  flip counts bytes of the signature segment altered
\* after signing.
HS256(key, msg) == [key |-> key, msg |-> msg, flip |-> 0]

jwt_encode(claims, key) ==
    [kind |-> "jwt", payload |-> claims, sig |-> HS256(key, claims)]

\* a bearer string that is not three base64url segments
MalformedToken ==
    [kind |-> "malformed", payload |-> [iat |-> 0, exp |-> 0],
     sig |-> [key |-> "", msg |-> [iat |-> 0, exp |-> 0], flip |-> 0]]

\* one byte of the signature segment altered
TamperSignature(tok) == [tok EXCEPT !.sig.flip = 1]

Returned(v) == [raised |-> FALSE, exc |-> "", value |-> <<v>>]
ReturnedNone == [raised |-> FALSE, exc |-> "", value |-> <<>>]
Raised(e) == [raised |-> TRUE, exc |-> e, value |-> <<>>]

\* JWTError and its subclasses
JWTErrors == {"JWTError", "ExpiredSignatureError", "JWTClaimsError"}

\* jose.jwt.decode(token, key, algorithms=["HS256"]) at clock reading t:
\* parse, verify the signature, validate exp (expired when exp < now)
jwt_decode(token, key, t) ==
    IF token.kind # "jwt" THEN Raised("JWTError")
    ELSE IF token.sig # HS256(key, token.payload) THEN Raised("JWTError")
    ELSE IF token.payload.exp < t THEN Raised("ExpiredSignatureError")
    ELSE Returned(token.payload)

---------------------------------------------------------------------------
(* core/security.py *)

\* create_access_token adding the minutes to the timestamp as if they were
\* seconds
create_access_token_seconds(s, subject, expires_delta_minutes, t) ==
    LET expire_minutes ==
            IntOr(expires_delta_minutes, s.ACCESS_TOKEN_EXPIRE_MINUTES)
        to_encode == [sub |-> subject, iat |-> t, exp |-> t + expire_minutes]
    IN  jwt_encode(to_encode, s.JWT_SECRET)

\* create_access_token(subject, expires_delta_minutes) called at clock reading t
\* under settings s
create_access_token(s, subject, expires_delta_minutes, t) ==
    LET expire_minutes ==
            IntOr(expires_delta_minutes, s.ACCESS_TOKEN_EXPIRE_MINUTES)
        to_encode == [sub |-> subject, iat |-> t,
                      exp |-> t + SECONDS_PER_MINUTE * expire_minutes]
    IN  jwt_encode(to_encode, s.JWT_SECRET)

\* decode_token without its except clause
decode_token_nocatch(s, token, t) ==
    jwt_decode(token, s.JWT_SECRET, t)

\* decode_token(token) at clock reading t: the payload, or None on JWTError
decode_token(s, token, t) ==
    LET r == jwt_decode(token, s.JWT_SECRET, t)
    IN  IF r.raised /\ r.exc \in JWTErrors THEN ReturnedNone ELSE r

---------------------------------------------------------------------------
(* Responses *)

\* what a call produced: the handler (or function) name, the HTTP status
\* (0 for a plain function call), whether an exception escaped it, the
\* returned objects, and (for decode_token, list_recipes, get_recipe and the
\* statements run on the store) the arguments
Response(op, status, body) ==
    [op |-> op, status |-> status, raised |-> FALSE, body |-> body, arg |-> <<>>]

NoResponse == Response("", 0, <<>>)

---------------------------------------------------------------------------
(* The clock *)

\* seconds a default-ttl token lives
Lifetime(s) == SECONDS_PER_MINUTE * s.ACCESS_TOKEN_EXPIRE_MINUTES

\* the clock is read at sampled instants.  Token-service runs read it around
\* the start and around one token lifetime later; store runs read it at the
\* start and once every token issued at the start has expired.
TokenInstants(s) ==
    {t \in {b + d : b \in {0, Lifetime(s)}, d \in (0 - MaxSkew)..MaxSkew} : t >= 0}

StoreInstants(s) == {0, Lifetime(s) + 1}

Tick(S) ==
    /\ \E t \in S : t > now /\ now' = t
    /\ UNCHANGED <<settings, users, recipes, nextRecipeId, inflight, tokens, last>>

---------------------------------------------------------------------------
(* Token service runs: create_access_token and decode_token called directly *)

Subjects == {"a@x.io"}

TtlArgs == {NoneInt, <<0>>, <<1>>}

\* a token signed by somebody who does not hold the server secret
ForeignToken(tok) == jwt_encode(tok.payload, "other-secret")

\* the bearer strings presented to decode_token: every issued token, as
\* issued, with a signature byte altered, or re-signed under another key,
\* and a malformed string
Presented ==
    {r.token : r \in tokens}
        \cup {TamperSignature(r.token) : r \in tokens}
        \cup {ForeignToken(r.token) : r \in tokens}
        \cup {MalformedToken}

TokIssue(subject, ttl) ==
    /\ Cardinality(tokens) < MaxTokens
    /\ LET tok == create_access_token(settings, subject, ttl, now)
       IN  /\ tokens' = tokens \cup {[token |-> tok, ttl |-> ttl, at |-> now]}
           /\ last' = [Response("create_access_token", 0, <<tok>>)
                          EXCEPT !.arg = <<>>]
    /\ UNCHANGED <<settings, now, users, recipes, nextRecipeId, inflight>>

TokDecode(tok) ==
    /\ LET r == decode_token(settings, tok, now)
       IN  last' = [op |-> "decode_token", status |-> 0, raised |-> r.raised,
                    body |-> r.value, arg |-> <<tok>>]
    /\ UNCHANGED <<settings, now, users, recipes, nextRecipeId, inflight, tokens>>

InitToken ==
    /\ settings \in {get_settings(env) : env \in EnvValues}
    /\ now = 0
    /\ users = {}
    /\ recipes = {}
    /\ nextRecipeId = 1
    /\ inflight = {}
    /\ tokens = {}
    /\ last = NoResponse

NextToken ==
    \/ \E subject \in Subjects, ttl \in TtlArgs : TokIssue(subject, ttl)
    \/ \E tok \in Presented : TokDecode(tok)
    \/ Tick(TokenInstants(settings))

SpecToken == InitToken /\ [][NextToken]_vars

---------------------------------------------------------------------------
(* Password hashing (core/security.py, passlib bcrypt) *)

\* bcrypt draws a fresh salt on every hash
Salts == {"salt1", "salt2"}

get_password_hash(password, salt) ==
    [scheme |-> "bcrypt", salt |-> salt, digest |-> <<salt, password>>]

verify_password(plain_password, hashed_password) ==
    hashed_password.digest = <<hashed_password.salt, plain_password>>

---------------------------------------------------------------------------
(* Request inputs *)

Emails == {"a@x.io", "b@x.io"}

\* an address nobody registers: a token for it is a token for a user who is
\* not (or no longer) in the store
GoneEmail == "gone@x.io"

\* Requests are taken as the handlers receive them: already validated against
\* their schema (a request that fails validation is answered 422 before any
\* handler code runs).  Passwords are compared for equality only.
Passwords == {"secret-1", "secret-2"}

\* the password the registrations of the model choose
SignupPasswords == {"secret-1"}

FullNames == {None, <<"A">>}

\* the Authorization header: <<>> when there is none, <<token>> for
\* "Bearer <token>"
NoCredentials == <<>>

\* a correctly signed token that carries no sub claim
NoSubToken ==
    jwt_encode([iat |-> 0, exp |-> Lifetime(settings) + 1], settings.JWT_SECRET)

\* the tokens login can have handed out at the sampled instants so far, for
\* every address including the one that has no user
LoginTokens ==
    {create_access_token(settings, e, NoneInt, t) :
        e \in Emails \cup {GoneEmail},
        t \in {i \in StoreInstants(settings) : i <= now}}

Credentials ==
    {NoCredentials}
        \cup {<<tok>> : tok \in LoginTokens}
        \cup {<<TamperSignature(create_access_token(settings, e, NoneInt, now))>> :
                e \in Emails}
        \cup {<<MalformedToken>>, <<NoSubToken>>}

---------------------------------------------------------------------------
(* OAuth2PasswordBearer and the current-user lookup *)

HTTP_200 == 200
HTTP_201 == 201
HTTP_204 == 204
HTTP_400 == 400
HTTP_401 == 401
HTTP_403 == 403
HTTP_404 == 404
HTTP_500 == 500

Ok(v) == [status |-> HTTP_200, value |-> <<v>>]
Fail(status) == [status |-> status, value |-> <<>>]

\* OAuth2PasswordBearer(tokenUrl="/auth/login"), auto_error left at its
\* default: a request without a bearer Authorization header is answered 401
oauth2_scheme(cred) ==
    IF cred = NoCredentials THEN Fail(HTTP_401) ELSE Ok(cred[1])

_get_user_by_email(db, email) == {u \in db : u.email = email}

\* _get_current_user answering "not found" for a token whose user is missing
_get_current_user_notfound(db, token, t) ==
    LET r == decode_token(settings, token, t)
        payload == r.value
    IN  IF r.raised THEN Fail(HTTP_500)
        ELSE IF payload = <<>> \/ "sub" \notin DOMAIN payload[1] THEN Fail(HTTP_401)
        ELSE LET found == _get_user_by_email(db, payload[1].sub)
             IN  IF found = {} THEN Fail(HTTP_404)
                 ELSE Ok(CHOOSE u \in found : TRUE)

\* _get_current_user(db, token): the same function in both routers
_get_current_user(db, token, t) ==
    LET r == decode_token(settings, token, t)
        payload == r.value
    IN  IF r.raised THEN Fail(HTTP_500)
        ELSE IF payload = <<>> \/ "sub" \notin DOMAIN payload[1] THEN Fail(HTTP_401)
        ELSE LET found == _get_user_by_email(db, payload[1].sub)
             IN  IF found = {} THEN Fail(HTTP_401)
                 ELSE Ok(CHOOSE u \in found : TRUE)

\* the Depends(oauth2_scheme) parameter followed by _get_current_user
Authenticate(cred) ==
    LET h == oauth2_scheme(cred)
    IN  IF h.status # HTTP_200 THEN h
        ELSE _get_current_user(users, h.value[1], now)

---------------------------------------------------------------------------
(* api/routers_auth.py *)

\* the row as serialised: every column but the password hash
UserOut(u) == [id |-> u.id, email |-> u.email, full_name |-> u.full_name]

FreeRequestIds == (1..MaxInflight) \ {r.rid : r \in inflight}

\* register, first half: the find-by-email SELECT
RegisterCheck(rid, email, password, full_name) ==
    /\ rid \in FreeRequestIds
    /\ IF _get_user_by_email(users, email) # {}
       THEN /\ last' = Response("register", HTTP_400, <<>>)
            /\ UNCHANGED inflight
       ELSE /\ inflight' = inflight \cup
                    {[rid |-> rid, email |-> email, password |-> password,
                      full_name |-> full_name]}
            /\ UNCHANGED last
    /\ UNCHANGED <<settings, now, users, recipes, nextRecipeId, tokens>>

\* the INSERT with no UNIQUE constraint on the email column
InsertUser_nounique(db, row) == [raised |-> FALSE, db |-> db \cup {row}]

\* the INSERT of a users row under the UNIQUE constraint on email
InsertUser(db, row) ==
    IF \E u \in db : u.email = row.email
    THEN [raised |-> TRUE, db |-> db]
    ELSE [raised |-> FALSE, db |-> db \cup {row}]

\* register, second half: hash, db.add, db.commit, db.refresh.  The handler
\* has no except clause: an IntegrityError from the commit escapes it and the
\* framework answers 500.
RegisterCommit(rid, salt) ==
    \E r \in inflight :
        /\ r.rid = rid
        /\ LET row == [id |-> Cardinality(users) + 1,
                       email |-> r.email,
                       hashed_password |-> get_password_hash(r.password, salt),
                       full_name |-> r.full_name]
               ins == InsertUser(users, row)
           IN  /\ users' = ins.db
               /\ last' = IF ins.raised
                          THEN [Response("register", HTTP_500, <<>>)
                                    EXCEPT !.raised = TRUE]
                          ELSE Response("register", HTTP_200, <<UserOut(row)>>)
        /\ inflight' = inflight \ {r}
        /\ UNCHANGED <<settings, now, recipes, nextRecipeId, tokens>>

Login(username, password) ==
    /\ LET found == _get_user_by_email(users, username)
       IN  IF found = {} \/ ~verify_password(password,
                                  (CHOOSE u \in found : TRUE).hashed_password)
           THEN last' = Response("login", HTTP_400, <<>>)
           ELSE last' = Response("login", HTTP_200,
                    <<[access_token |->
                          create_access_token(settings, username, NoneInt, now),
                       token_type |-> "bearer"]>>)
    /\ UNCHANGED <<settings, now, users, recipes, nextRecipeId, inflight, tokens>>

me(cred) ==
    LET a == Authenticate(cred)
    IN  IF a.status # HTTP_200 THEN [status |-> a.status, body |-> <<>>]
        ELSE [status |-> HTTP_200, body |-> <<UserOut(a.value[1])>>]

Me(cred) ==
    /\ \E res \in {me(cred)} : last' = Response("me", res.status, res.body)
    /\ UNCHANGED <<settings, now, users, recipes, nextRecipeId, inflight, tokens>>

Init ==
    /\ settings = get_settings(NoneInt)
    /\ now = 0
    /\ users = {}
    /\ recipes = {}
    /\ nextRecipeId = 1
    /\ inflight = {}
    /\ tokens = {}
    /\ last = NoResponse

Next ==
    \/ \E rid \in 1..MaxInflight, email \in Emails, password \in SignupPasswords,
          full_name \in FullNames :
            RegisterCheck(rid, email, password, full_name)
    \/ \E rid \in 1..MaxInflight, salt \in Salts : RegisterCommit(rid, salt)
    \/ \E username \in Emails, password \in Passwords : Login(username, password)
    \/ \E cred \in Credentials : Me(cred)
    \/ Tick(StoreInstants(settings))

Spec == Init /\ [][Next]_vars

---------------------------------------------------------------------------
(* SQL helpers *)

Lower(c) == CASE c = "E" -> "e" [] c = "G" -> "g" [] OTHER -> c

\* s LIKE p: % matches any run of characters, _ any single character; ILIKE
\* compares the remaining characters without regard to case
RECURSIVE ILike(_, _)
ILike(s, p) ==
    IF p = <<>> THEN s = <<>>
    ELSE IF Head(p) = "%"
         THEN ILike(s, Tail(p)) \/ (s # <<>> /\ ILike(Tail(s), p))
    ELSE IF s = <<>> THEN FALSE
    ELSE /\ (Head(p) = "_" \/ Lower(Head(p)) = Lower(Head(s)))
         /\ ILike(Tail(s), Tail(p))

\* column.ilike(pattern): NULL for a NULL column, which a WHERE clause rejects
ColumnILike(column, pattern) == column # None /\ ILike(column, pattern)

\* the orders ORDER BY created_at DESC may return a set of rows in: rows with
\* equal created_at come in any order
RowsNewestFirst(rows) ==
    {order \in [1..Cardinality(rows) -> rows] :
        /\ \A i, j \in 1..Cardinality(rows) : i # j => order[i] # order[j]
        /\ \A i, j \in 1..Cardinality(rows) :
              i < j => order[i].created_at >= order[j].created_at}

\* OFFSET skip LIMIT limit
OffsetLimit(order, skip, limit) ==
    SubSeq(order, skip + 1, IF skip + limit < Len(order) THEN skip + limit
                            ELSE Len(order))

---------------------------------------------------------------------------
(* api/routers_recipes.py *)

RecipeById(recipe_id) == {r \in recipes : r.id = recipe_id}

create_recipe(cred, recipe_in) ==
    LET a == Authenticate(cred)
    IN  IF a.status # HTTP_200
        THEN [status |-> a.status, body |-> <<>>, recipes |-> recipes]
        ELSE LET recipe == [id |-> nextRecipeId,
                            title |-> recipe_in.title,
                            description |-> recipe_in.description,
                            ingredients |-> recipe_in.ingredients,
                            steps |-> recipe_in.steps,
                            owner_id |-> a.value[1].id,
                            created_at |-> now]
             IN  [status |-> HTTP_201, body |-> <<recipe>>,
                  recipes |-> recipes \cup {recipe}]

CreateRecipe(cred, recipe_in) ==
    /\ \E res \in {create_recipe(cred, recipe_in)} :
           /\ res.status = HTTP_201 => nextRecipeId <= MaxRecipes
           /\ recipes' = res.recipes
           /\ nextRecipeId' = IF res.status = HTTP_201 THEN nextRecipeId + 1
                              ELSE nextRecipeId
           /\ last' = Response("create_recipe", res.status, res.body)
    /\ UNCHANGED <<settings, now, users, inflight, tokens>>

\* the rows the WHERE clause of list_recipes keeps
list_filter(q) ==
    IF q # None /\ q # <<>>
    THEN LET like == <<"%">> \o q \o <<"%">>
         IN  {r \in recipes : \/ ColumnILike(r.title, like)
                              \/ ColumnILike(r.description, like)
                              \/ ColumnILike(r.ingredients, like)}
    ELSE recipes

ListRecipes(cred, q, skip, limit) ==
    /\ LET h == oauth2_scheme(cred)
       IN  IF h.status # HTTP_200
           THEN last' = Response("list_recipes", h.status, <<>>)
           ELSE \E order \in RowsNewestFirst(list_filter(q)) :
                    last' = [Response("list_recipes", HTTP_200,
                                      OffsetLimit(order, skip, limit))
                                EXCEPT !.arg = <<[q |-> q, skip |-> skip,
                                                  limit |-> limit]>>]
    /\ UNCHANGED <<settings, now, users, recipes, nextRecipeId, inflight, tokens>>

GetRecipe(recipe_id) ==
    /\ LET found == RecipeById(recipe_id)
           res == IF found = {} THEN Response("get_recipe", HTTP_404, <<>>)
                  ELSE Response("get_recipe", HTTP_200,
                                <<CHOOSE r \in found : TRUE>>)
       IN  last' = [res EXCEPT !.arg = <<recipe_id>>]
    /\ UNCHANGED <<settings, now, users, recipes, nextRecipeId, inflight, tokens>>

\* the update block testing truthiness (`if recipe_in.title:`) instead of
\* `is not None`
apply_updates_truthy(recipe, recipe_in) ==
    LET Given(v) == v # None /\ v # <<>>
    IN  [recipe EXCEPT
            !.title = IF Given(recipe_in.title) THEN recipe_in.title ELSE @,
            !.description =
                IF Given(recipe_in.description) THEN recipe_in.description ELSE @,
            !.ingredients =
                IF Given(recipe_in.ingredients) THEN recipe_in.ingredients ELSE @,
            !.steps = IF Given(recipe_in.steps) THEN recipe_in.steps ELSE @]

\* the "apply updates if provided" block of update_recipe
apply_updates(recipe, recipe_in) ==
    [recipe EXCEPT
        !.title = IF recipe_in.title # None THEN recipe_in.title ELSE @,
        !.description =
            IF recipe_in.description # None THEN recipe_in.description ELSE @,
        !.ingredients =
            IF recipe_in.ingredients # None THEN recipe_in.ingredients ELSE @,
        !.steps = IF recipe_in.steps # None THEN recipe_in.steps ELSE @]

\* the ownership test comparing the recipe's own id with the caller's
not_owner_byid(recipe, user) == recipe.id # user.id

\* the ownership test of update_recipe and delete_recipe
not_owner(recipe, user) == recipe.owner_id # user.id

update_recipe(cred, recipe_id, recipe_in) ==
    LET a == Authenticate(cred)
        found == RecipeById(recipe_id)
    IN  IF a.status # HTTP_200
        THEN [status |-> a.status, body |-> <<>>, recipes |-> recipes]
        ELSE IF found = {}
        THEN [status |-> HTTP_404, body |-> <<>>, recipes |-> recipes]
        ELSE LET recipe == CHOOSE r \in found : TRUE
             IN  IF not_owner(recipe, a.value[1])
                 THEN [status |-> HTTP_403, body |-> <<>>, recipes |-> recipes]
                 ELSE LET updated == apply_updates(recipe, recipe_in)
                      IN  [status |-> HTTP_200, body |-> <<updated>>,
                           recipes |-> (recipes \ {recipe}) \cup {updated}]

UpdateRecipe(cred, recipe_id, recipe_in) ==
    /\ \E res \in {update_recipe(cred, recipe_id, recipe_in)} :
           /\ recipes' = res.recipes
           /\ last' = Response("update_recipe", res.status, res.body)
    /\ UNCHANGED <<settings, now, users, nextRecipeId, inflight, tokens>>

\* delete_recipe deleting by owner (every recipe of the caller) instead of
\* the one row it looked up
delete_recipe_byowner(cred, recipe_id) ==
    LET a == Authenticate(cred)
        found == RecipeById(recipe_id)
    IN  IF a.status # HTTP_200
        THEN [status |-> a.status, recipes |-> recipes]
        ELSE IF found = {}
        THEN [status |-> HTTP_404, recipes |-> recipes]
        ELSE LET recipe == CHOOSE r \in found : TRUE
             IN  IF not_owner(recipe, a.value[1])
                 THEN [status |-> HTTP_403, recipes |-> recipes]
                 ELSE [status |-> HTTP_204,
                       recipes |-> {r \in recipes : r.owner_id # a.value[1].id}]

delete_recipe(cred, recipe_id) ==
    LET a == Authenticate(cred)
        found == RecipeById(recipe_id)
    IN  IF a.status # HTTP_200
        THEN [status |-> a.status, recipes |-> recipes]
        ELSE IF found = {}
        THEN [status |-> HTTP_404, recipes |-> recipes]
        ELSE LET recipe == CHOOSE r \in found : TRUE
             IN  IF not_owner(recipe, a.value[1])
                 THEN [status |-> HTTP_403, recipes |-> recipes]
                 ELSE [status |-> HTTP_204, recipes |-> recipes \ {recipe}]

DeleteRecipe(cred, recipe_id) ==
    /\ \E res \in {delete_recipe(cred, recipe_id)} :
           /\ recipes' = res.recipes
           /\ last' = Response("delete_recipe", res.status, <<>>)
    /\ UNCHANGED <<settings, now, users, nextRecipeId, inflight, tokens>>

---------------------------------------------------------------------------
(* Recipe runs: the recipes router over a store with two registered users *)

UserRow(id, email) ==
    [id |-> id, email |-> email,
     hashed_password |-> get_password_hash("secret-1", "salt1"),
     full_name |-> None]

RegisteredUsers == {UserRow(1, "a@x.io"), UserRow(2, "b@x.io")}

Body(title, description, ingredients, steps) ==
    [title |-> title, description |-> description,
     ingredients |-> ingredients, steps |-> steps]

CreateBodies ==
    {Body(<<"e">>, <<"e">>, <<"e">>, <<"e">>), Body(<<"e">>, None, None, None)}

\* update bodies of the recipe runs: nothing provided, and two fields provided
\* as the empty string
UpdateBodies ==
    {Body(None, None, None, None), Body(<<>>, None, None, <<>>)}

RecipeIds == 1..MaxRecipes

Queries == {None, <<"E">>}

InitRecipes ==
    /\ settings = get_settings(NoneInt)
    /\ now = 0
    /\ users = RegisteredUsers
    /\ recipes = {}
    /\ nextRecipeId = 1
    /\ inflight = {}
    /\ tokens = {}
    /\ last = NoResponse

NextRecipes ==
    \/ \E cred \in Credentials, recipe_in \in CreateBodies :
          CreateRecipe(cred, recipe_in)
    \/ \E cred \in Credentials, q \in Queries :
          ListRecipes(cred, q, 0, MaxPage)
    \/ \E recipe_id \in RecipeIds : GetRecipe(recipe_id)
    \/ \E cred \in Credentials, recipe_id \in RecipeIds, recipe_in \in UpdateBodies :
          UpdateRecipe(cred, recipe_id, recipe_in)
    \/ \E cred \in Credentials, recipe_id \in RecipeIds : DeleteRecipe(cred, recipe_id)
    \/ \E cred \in Credentials : Me(cred)
    \/ Tick(StoreInstants(settings))

SpecRecipes == InitRecipes /\ [][NextRecipes]_vars

---------------------------------------------------------------------------
(* Update runs: update_recipe and get_recipe over a store holding one recipe
   of each registered user *)

SeedRow(id, owner_id, body) ==
    [id |-> id, title |-> body.title, description |-> body.description,
     ingredients |-> body.ingredients, steps |-> body.steps,
     owner_id |-> owner_id, created_at |-> 0]

\* every combination of absent and empty-string fields, and one body that
\* provides non-empty text
AllUpdateBodies ==
    {Body(t, d, i, s) : t \in {None, <<>>}, d \in {None, <<>>},
                        i \in {None, <<>>}, s \in {None, <<>>}}
        \cup {Body(<<"e">>, <<"e">>, <<"e">>, <<"e">>)}

\* fresh tokens of the two registered users
OwnerCredentials ==
    {<<create_access_token(settings, e, NoneInt, now)>> : e \in Emails}

InitUpdate ==
    /\ settings = get_settings(NoneInt)
    /\ now = 0
    /\ users = RegisteredUsers
    /\ recipes \in {{SeedRow(1, 1, b1), SeedRow(2, 2, Body(<<"e">>, None, None, None))} :
                        b1 \in CreateBodies}
    /\ nextRecipeId = 3
    /\ inflight = {}
    /\ tokens = {}
    /\ last = NoResponse

NextUpdate ==
    \/ \E cred \in OwnerCredentials, recipe_id \in RecipeIds,
          recipe_in \in AllUpdateBodies :
            UpdateRecipe(cred, recipe_id, recipe_in)
    \/ \E recipe_id \in RecipeIds : GetRecipe(recipe_id)

SpecUpdate == InitUpdate /\ [][NextUpdate]_vars

---------------------------------------------------------------------------
(* List runs: list_recipes over every small store *)

\* recipes a listed store may hold
MaxListed == 2

ListVariants ==
    {Body(<<"E", "g">>, None, None, None),
     Body(<<"h">>, <<"e", "g", "g">>, None, None),
     Body(<<"h">>, None, <<"e", "G">>, None),
     Body(<<"h">>, None, None, <<"e", "g">>),
     Body(<<>>, None, None, None)}

ListQueries == {None, <<>>, <<"e", "g">>, <<"G">>, <<"%">>, <<"_">>}

\* stores of n rows with ids 1..n inserted at non-decreasing clock readings
ListStores ==
    UNION {
        {{[SeedRow(i, 1, body[i]) EXCEPT !.created_at = at[i]] : i \in 1..n} :
            body \in [1..n -> ListVariants],
            at \in {f \in [1..n -> 0..(MaxListed - 1)] :
                        \A i, j \in 1..n : i < j => f[i] <= f[j]}} :
        n \in 0..MaxListed}

InitList ==
    /\ settings = get_settings(NoneInt)
    /\ now = MaxListed
    /\ users = RegisteredUsers
    /\ recipes \in ListStores
    /\ nextRecipeId = MaxListed + 1
    /\ inflight = {}
    /\ tokens = {}
    /\ last = NoResponse

NextList ==
    \E cred \in {<<MalformedToken>>},
       q \in ListQueries, skip \in 0..MaxPage, limit \in 1..MaxPage :
        ListRecipes(cred, q, skip, limit)

SpecList == InitList /\ [][NextList]_vars

---------------------------------------------------------------------------
(* db/models.py: the foreign key of recipes.owner_id, and the store runs in
   which users rows are removed while create_recipe requests are under way *)

\* recipes.owner_id declared as a plain column: a DELETE on users leaves the
\* recipes table alone
ondelete_none(db_recipes, user_id) == db_recipes

\* ForeignKey("users.id", ondelete="CASCADE"): the recipes table after the
\* users row user_id is deleted
ondelete_cascade(db_recipes, user_id) ==
    {r \in db_recipes : r.owner_id # user_id}

\* the INSERT of a recipes row under the foreign key on owner_id
InsertRecipe(db_users, db_recipes, row) ==
    IF \E u \in db_users : u.id = row.owner_id
    THEN [raised |-> FALSE, db |-> db_recipes \cup {row}]
    ELSE [raised |-> TRUE, db |-> db_recipes]

\* a users row deleted in the store.  No handler of the service does it; the
\* schema declares what the store then does to the recipes.  The statement is
\* recorded with the deleted id and the ids of the recipes that went with it.
DeleteUser(user_id) ==
    /\ \E u \in users : u.id = user_id
    /\ users' = {u \in users : u.id # user_id}
    /\ recipes' = ondelete_cascade(recipes, user_id)
    /\ last' = [Response("delete_user", 0, <<>>)
                  EXCEPT !.arg = <<user_id, {r.id : r \in recipes \ recipes'}>>]
    /\ UNCHANGED <<settings, now, nextRecipeId, inflight, tokens>>

\* create_recipe, first half: the current-user lookup
CreateRecipeResolve(rid, cred, recipe_in) ==
    /\ rid \in FreeRequestIds
    /\ LET a == Authenticate(cred)
       IN  IF a.status # HTTP_200
           THEN /\ last' = Response("create_recipe", a.status, <<>>)
                /\ UNCHANGED inflight
           ELSE /\ inflight' = inflight \cup
                        {[rid |-> rid, cred |-> cred, user |-> a.value[1],
                          recipe_in |-> recipe_in]}
                /\ UNCHANGED last
    /\ UNCHANGED <<settings, now, users, recipes, nextRecipeId, tokens>>

\* create_recipe, second half: Recipe(...), db.add, db.commit, db.refresh.
\* The handler has no except clause: an IntegrityError from the commit
\* escapes it and the framework answers 500.
CreateRecipeCommit(rid) ==
    \E req \in inflight :
        /\ req.rid = rid
        /\ nextRecipeId <= MaxRecipes
        /\ LET recipe == [id |-> nextRecipeId,
                          title |-> req.recipe_in.title,
                          description |-> req.recipe_in.description,
                          ingredients |-> req.recipe_in.ingredients,
                          steps |-> req.recipe_in.steps,
                          owner_id |-> req.user.id,
                          created_at |-> now]
               ins == InsertRecipe(users, recipes, recipe)
           IN  /\ recipes' = ins.db
               /\ nextRecipeId' = IF ins.raised THEN nextRecipeId
                                  ELSE nextRecipeId + 1
               /\ last' = IF ins.raised
                          THEN [Response("create_recipe", HTTP_500, <<>>)
                                    EXCEPT !.raised = TRUE]
                          ELSE Response("create_recipe", HTTP_201, <<recipe>>)
        /\ inflight' = inflight \ {req}
        /\ UNCHANGED <<settings, now, users, tokens>>

UserIds == {u.id : u \in RegisteredUsers}

InitCascade ==
    /\ settings = get_settings(NoneInt)
    /\ now = 0
    /\ users = RegisteredUsers
    /\ recipes = {}
    /\ nextRecipeId = 1
    /\ inflight = {}
    /\ tokens = {}
    /\ last = NoResponse

NextCascade ==
    \/ \E rid \in 1..MaxInflight, cred \in OwnerCredentials,
          recipe_in \in CreateBodies :
            CreateRecipeResolve(rid, cred, recipe_in)
    \/ \E rid \in 1..MaxInflight : CreateRecipeCommit(rid)
    \/ \E user_id \in UserIds : DeleteUser(user_id)
    \/ \E recipe_id \in RecipeIds : GetRecipe(recipe_id)

SpecCascade == InitCascade /\ [][NextCascade]_vars

---------------------------------------------------------------------------
(* Properties *)

\* a token decode_token must reject at clock reading t
Rejectable(tok, t) ==
    \/ tok.kind # "jwt"
    \/ tok.sig # HS256(JWT_SECRET, tok.payload)
    \/ tok.payload.exp < t

---------------------------------------------------------------------------
(* Registration properties *)


EmailsUnique == \A u1, u2 \in users : u1.email = u2.email => u1 = u2

EmailStored(email) == \E u \in users : u.email = email

\* C2: when two register requests for the same email have both passed the
\* find-by-email check, the one that inserts second ends with Conflict (400),
\* not with an escaped database error, and exactly one user has that email.
C2_RaceLoserGetsConflict ==
    [][\A rid \in 1..MaxInflight, salt \in Salts :
          (RegisterCommit(rid, salt)
              /\ \E r \in inflight : r.rid = rid /\ EmailStored(r.email))
            => /\ last'.status = HTTP_400
               /\ ~last'.raised
               /\ users' = users]_vars

\* C6: a register call that finds its email stored answers Conflict and leaves
\* the users unchanged; a register call whose email is not stored when it
\* inserts succeeds and adds exactly one user, with that email; and no two
\* stored users ever share an email.
C6_SecondRegisterConflicts ==
    /\ []EmailsUnique
    /\ [][\A rid \in 1..MaxInflight, email \in Emails, password \in Passwords,
            full_name \in FullNames :
              (RegisterCheck(rid, email, password, full_name) /\ EmailStored(email))
                => /\ last'.op = "register"
                   /\ last'.status = HTTP_400
                   /\ users' = users
                   /\ inflight' = inflight]_vars
    /\ [][\A rid \in 1..MaxInflight, salt \in Salts :
              \A r \in inflight :
                  (r.rid = rid /\ RegisterCommit(rid, salt) /\ ~EmailStored(r.email))
                    => /\ last'.status = HTTP_200
                       /\ \E u \in users' :
                            /\ u.email = r.email
                            /\ users' = users \cup {u}
                            /\ u \notin users
                            /\ last'.body = <<UserOut(u)>>]_vars

\* a register call was answered Conflict while its email was stored
C6_Witness ==
    /\ last.op = "register"
    /\ last.status = HTTP_400
    /\ users # {}

---------------------------------------------------------------------------
(* Recipe properties *)

\* the caller a credential authenticates as, as a set of at most one user id
CallerIds(cred) ==
    LET a == Authenticate(cred)
    IN  IF a.status = HTTP_200 THEN {a.value[1].id} ELSE {}

\* in the current store, update_recipe and delete_recipe by an authenticated
\* non-owner answer 403 and keep the table; by the owner they succeed
OwnerGate ==
    \A cred \in Credentials :
        \A caller \in CallerIds(cred) :
            \A r \in recipes :
                /\ \A recipe_in \in UpdateBodies :
                      \E res \in {update_recipe(cred, r.id, recipe_in)} :
                          IF caller # r.owner_id
                          THEN res.status = HTTP_403 /\ res.recipes = recipes
                          ELSE res.status = HTTP_200
                /\ \E res \in {delete_recipe(cred, r.id)} :
                      IF caller # r.owner_id
                      THEN res.status = HTTP_403 /\ res.recipes = recipes
                      ELSE res.status = HTTP_204 /\ res.recipes = recipes \ {r}

\* a step answered 403 keeps every table; a row changes or disappears only in
\* an update or delete made with a credential of its owner, and keeps its
\* owner_id
OwnerFrame ==
    /\ last'.status = HTTP_403 => UNCHANGED <<users, recipes, nextRecipeId>>
    /\ \A r \in recipes :
        /\ r \notin recipes'
            => \E cred \in Credentials :
                  /\ CallerIds(cred) = {r.owner_id}
                  /\ \/ DeleteRecipe(cred, r.id)
                     \/ \E recipe_in \in UpdateBodies :
                            UpdateRecipe(cred, r.id, recipe_in)
        /\ \A r2 \in recipes' : r2.id = r.id => r2.owner_id = r.owner_id

\* C1: update_recipe and delete_recipe by an authenticated user who is not
\* the recipe's owner answer 403 and change nothing; by the owner they
\* succeed; a recipe row changes or disappears only in an update or delete
\* by its owner, and its owner_id never changes.
C1_OnlyOwnerMutates == []OwnerGate /\ [][OwnerFrame]_vars

\* an update by a non-owner was answered 403 while the recipe is stored
C1_Witness ==
    /\ last.op = "update_recipe"
    /\ last.status = HTTP_403
    /\ recipes # {}

\* C4: list_recipes is never answered Unauthenticated: with no token or with
\* an invalid one it returns the list.
C4_ListNeverUnauthenticated ==
    last.op = "list_recipes" => last.status = HTTP_200

\* a credential the current-user lookup must refuse: a token that
\* decode_token rejects, one without a sub claim, or one whose sub is the
\* email of no stored user
Unauthenticated(cred) ==
    /\ cred # NoCredentials
    /\ \/ Rejectable(cred[1], now)
       \/ "sub" \notin DOMAIN cred[1].payload
       \/ ~EmailStored(cred[1].payload.sub)

IdentityOps == {"me", "create_recipe", "update_recipe", "delete_recipe"}

\* in the current store, every identity-requiring handler answers 401 to such
\* a credential, for every recipe id (stored or not, the caller's or not),
\* and keeps the table
UnauthenticatedGate ==
    \A cred \in Credentials :
        Unauthenticated(cred)
            => /\ me(cred).status = HTTP_401
               /\ \A recipe_in \in CreateBodies :
                    \E res \in {create_recipe(cred, recipe_in)} :
                        res.status = HTTP_401 /\ res.recipes = recipes
               /\ \A recipe_id \in RecipeIds :
                    /\ \A recipe_in \in UpdateBodies :
                          \E res \in {update_recipe(cred, recipe_id, recipe_in)} :
                              res.status = HTTP_401 /\ res.recipes = recipes
                    /\ \E res \in {delete_recipe(cred, recipe_id)} :
                          res.status = HTTP_401 /\ res.recipes = recipes

\* a step in which such a handler answers 401 keeps every table
UnauthenticatedFrame ==
    (last'.op \in IdentityOps /\ last'.status = HTTP_401)
        => UNCHANGED <<users, recipes, nextRecipeId>>

\* C9: me, create_recipe, update_recipe and delete_recipe called with such a
\* credential answer 401, whether or not the recipe exists or is the
\* caller's, and leave users and recipes unchanged.
C9_UnauthenticatedFirst == []UnauthenticatedGate /\ [][UnauthenticatedFrame]_vars

\* a delete was answered 401 once the clock has passed a token lifetime
C9_Witness ==
    /\ last.op = "delete_recipe"
    /\ last.status = HTTP_401
    /\ now > Lifetime(settings)

---------------------------------------------------------------------------
(* Update properties *)

RecipeFields == {"title", "description", "ingredients", "steps"}

\* new is old with exactly the provided fields of recipe_in overwritten
Merged(old, recipe_in, new) ==
    /\ \A f \in RecipeFields :
          new[f] = IF recipe_in[f] # None THEN recipe_in[f] ELSE old[f]
    /\ new.id = old.id
    /\ new.owner_id = old.owner_id
    /\ new.created_at = old.created_at

\* in the current store, update_recipe by the owner succeeds, returns the
\* merged row and replaces the old row by it
MergeGate ==
    \A cred \in OwnerCredentials, old \in recipes, recipe_in \in AllUpdateBodies :
        CallerIds(cred) = {old.owner_id}
            => \E res \in {update_recipe(cred, old.id, recipe_in)} :
                  /\ res.status = HTTP_200
                  /\ Len(res.body) = 1
                  /\ Merged(old, recipe_in, res.body[1])
                  /\ res.recipes = (recipes \ {old}) \cup {res.body[1]}

\* a successful update step replaces one stored row by the returned row and
\* keeps every other row; a get step returns the stored row
MergeFrame ==
    /\ (last'.op = "update_recipe" /\ last'.status = HTTP_200)
        => \E old \in recipes :
              /\ old.id = last'.body[1].id
              /\ recipes' = (recipes \ {old}) \cup {last'.body[1]}
              /\ \E recipe_in \in AllUpdateBodies :
                    Merged(old, recipe_in, last'.body[1])
    /\ \A r \in recipes :
          GetRecipe(r.id) => last'.status = HTTP_200 /\ last'.body = <<r>>

\* C5: a successful update_recipe sets each provided field (the empty string
\* included) to the provided value, keeps every absent field, the id, the
\* owner and the creation time, leaves every other recipe as it was and
\* returns the merged row; get_recipe returns the stored row.
C5_UpdateOverwritesExactlyProvided == []MergeGate /\ [][MergeFrame]_vars

\* an update gave a recipe an empty-string description and kept its title
C5_Witness ==
    /\ last.op = "update_recipe"
    /\ last.status = HTTP_200
    /\ last.body[1].description = <<>>
    /\ last.body[1].title = <<"e">>
    /\ last.body[1].ingredients = None

---------------------------------------------------------------------------
(* List properties *)

\* q occurs in s as a substring, letter case ignored
Contains(s, q) ==
    \E i \in 0..(Len(s) - Len(q)) :
        \A k \in 1..Len(q) : Lower(s[i + k]) = Lower(q[k])

FieldContains(field, q) == field # None /\ Contains(field, q)

SubstringMatches(q) ==
    IF q = None THEN recipes
    ELSE {r \in recipes : \/ FieldContains(r.title, q)
                          \/ FieldContains(r.description, q)
                          \/ FieldContains(r.ingredients, q)}

\* C10: a successful list_recipes returns the recipes whose title,
\* description or ingredients contain q (all recipes without q), newest
\* first, less the first skip entries, at most limit of them.
C10_ListReturnsSubstringMatches ==
    [][\A q \in ListQueries, skip \in 0..MaxPage, limit \in 1..MaxPage :
          (ListRecipes(<<MalformedToken>>, q, skip, limit) /\ last'.status = HTTP_200)
            => \E order \in RowsNewestFirst(SubstringMatches(q)) :
                  last'.body = OffsetLimit(order, skip, limit)]_vars

---------------------------------------------------------------------------
(* Token service properties *)

\* the expiry second the caller asked for: ttl minutes after issuance, the
\* configured default when no ttl is given
RequestedExp(r) ==
    r.at + SECONDS_PER_MINUTE *
        (IF r.ttl = NoneInt THEN settings.ACCESS_TOKEN_EXPIRE_MINUTES ELSE r.ttl[1])

\* C3: a token issued with ttl = 0 minutes decodes to None when verified one
\* second or more after issuance.
C3_ZeroTtlInvalidAfterOneSecond ==
    [][\A r \in tokens :
          (r.ttl = <<0>> /\ now >= r.at + 1 /\ TokDecode(r.token))
              => last'.body = <<>>]_vars

\* C7 as stated: a default-ttl token decodes to its payload (with the issuing
\* subject) at every time strictly before exp and to None at every time once
\* ttl minutes have elapsed since issuance.
C7_ValidBeforeExpInvalidFromExp ==
    [][\A r \in tokens :
          (r.ttl = NoneInt /\ TokDecode(r.token))
              => /\ now < RequestedExp(r)
                      => /\ Len(last'.body) = 1
                         /\ last'.body[1].sub \in Subjects
                         /\ last'.body[1] = r.token.payload
                 /\ now >= RequestedExp(r) => last'.body = <<>>]_vars

\* C7 amended: a default-ttl token decodes to its payload (with the issuing
\* subject) at every second up to and including exp, and to None at every
\* second after exp; nothing else decides the outcome.
C7_ValidThroughExpInvalidAfter ==
    [][\A r \in tokens :
          (r.ttl = NoneInt /\ TokDecode(r.token))
              => /\ r.token.payload.exp = RequestedExp(r)
                 /\ ~last'.raised
                 /\ now <= RequestedExp(r)
                      => /\ Len(last'.body) = 1
                         /\ last'.body[1].sub \in Subjects
                         /\ last'.body[1] = r.token.payload
                 /\ now > RequestedExp(r) => last'.body = <<>>]_vars

\* a default-ttl token was decoded after its expiry and gave None
C7_Witness ==
    /\ last.op = "decode_token"
    /\ last.body = <<>>
    /\ \E r \in tokens : r.ttl = NoneInt /\ last.arg = <<r.token>>

\* C8: decode_token never raises, and returns None for every token that is
\* malformed, past its exp, or whose signature does not match the server
\* secret (a signature byte altered, or signed under another key).
C8_DecodeFailClosed ==
    [][\A tok \in Presented :
          TokDecode(tok)
              => /\ ~last'.raised
                 /\ Rejectable(tok, now) => last'.body = <<>>]_vars

\* a token with one signature byte altered was decoded and gave None
C8_Witness ==
    /\ last.op = "decode_token"
    /\ ~last.raised
    /\ last.body = <<>>
    /\ \E r \in tokens : last.arg = <<TamperSignature(r.token)>>

---------------------------------------------------------------------------
(* Foreign-key properties *)

\* every stored recipe is owned by a stored user
OwnerExists == \A r \in recipes : \E u \in users : u.id = r.owner_id

\* the ids handed out so far that no stored recipe carries
AbsentIds == {id \in RecipeIds : RecipeById(id) = {}}

\* one step of the store runs: the user a create_recipe request resolves is
\* the stored user named by its token's sub; the row it inserts carries that
\* user's id as owner_id; removing a user removes every recipe that user
\* owned; a recipe id that was handed out and is gone stays gone; and
\* get_recipe on a recipe removed with its owner, like on any id without a
\* row, answers 404
CascadeFrame ==
    /\ \A req \in inflight' \ inflight :
          /\ req.user \in users
          /\ req.user.email = req.cred[1].payload.sub
    /\ \A r \in recipes' \ recipes :
          \E req \in inflight \ inflight' :
              /\ r.owner_id = req.user.id
              /\ last'.status = HTTP_201
              /\ last'.body = <<r>>
    /\ \A u \in users \ users' :
          \A r \in recipes :
              r.owner_id = u.id => \A r2 \in recipes' : r2.id # r.id
    /\ \A id \in AbsentIds : id < nextRecipeId => \A r2 \in recipes' : r2.id # id
    /\ \A id \in RecipeIds :
          (GetRecipe(id) /\ (id \in AbsentIds
                                \/ (last.op = "delete_user" /\ id \in last.arg[2])))
            => last'.status = HTTP_404 /\ last'.body = <<>>

\* C11: every stored recipe's owner_id is the id of a stored user;
\* create_recipe stores the id of the user resolved from the caller's token
\* as owner_id; removing a user removes all recipes that user owned, and
\* get_recipe on any of them answers 404 from then on.
C11_OwnerAlwaysExists == []OwnerExists /\ [][CascadeFrame]_vars

\* a user who owned a recipe is gone, get_recipe on that recipe's id was
\* answered 404, and a recipe of the other user is still stored
C11_Witness ==
    /\ last.op = "get_recipe"
    /\ last.status = HTTP_404
    /\ last.arg[1] < nextRecipeId
    /\ users # RegisteredUsers
    /\ recipes # {}

---------------------------------------------------------------------------
(* Not-found properties *)

\* in the current store, for every authenticated caller: update_recipe and
\* delete_recipe on an id without a row answer 404 and keep the table, and
\* delete_recipe by the owner answers 204 and leaves the table without that
\* row and with every other row
NotFoundGate ==
    \A cred \in Credentials :
        CallerIds(cred) # {}
            => /\ \A id \in AbsentIds :
                    /\ \A recipe_in \in UpdateBodies :
                          \E res \in {update_recipe(cred, id, recipe_in)} :
                              /\ res.status = HTTP_404
                              /\ res.body = <<>>
                              /\ res.recipes = recipes
                    /\ \E res \in {delete_recipe(cred, id)} :
                          res.status = HTTP_404 /\ res.recipes = recipes
               /\ \A r \in recipes :
                    CallerIds(cred) = {r.owner_id}
                        => \E res \in {delete_recipe(cred, r.id)} :
                              /\ res.status = HTTP_204
                              /\ \A r2 \in recipes :
                                    r2 \in res.recipes <=> r2.id # r.id
                              /\ res.recipes \subseteq recipes

\* one step of the recipe runs: a step answered 404 keeps every table;
\* get_recipe on an id without a row answers 404; a delete answered 204
\* removes one row and nothing else; and an id that was handed out and has
\* no row never gets one again
NotFoundFrame ==
    /\ last'.status = HTTP_404 => UNCHANGED <<users, recipes, nextRecipeId>>
    /\ \A id \in AbsentIds : GetRecipe(id) => last'.status = HTTP_404
    /\ (last'.op = "delete_recipe" /\ last'.status = HTTP_204
            /\ (last' # last \/ recipes' # recipes))
          => /\ \E r \in recipes : r \notin recipes' /\ recipes' = recipes \ {r}
             /\ UNCHANGED <<users, nextRecipeId>>
    /\ \A id \in AbsentIds : id < nextRecipeId => \A r2 \in recipes' : r2.id # id

\* C12: for an authenticated caller, update_recipe and delete_recipe on an
\* id for which no recipe exists answer 404 and leave the store unchanged; a
\* delete_recipe by the owner answers 204 and removes exactly that recipe;
\* from then on the id has no recipe, so get_recipe, update_recipe and
\* delete_recipe on it answer 404.
C12_MissingRecipeNotFound == []NotFoundGate /\ [][NotFoundFrame]_vars

\* every id was handed out, one recipe was deleted and the other is still
\* stored, and an update of the deleted id was answered 404
C12_Witness ==
    /\ last.op = "update_recipe"
    /\ last.status = HTTP_404
    /\ nextRecipeId = MaxRecipes + 1
    /\ Cardinality(recipes) = MaxRecipes - 1

====
